---- MODULE Spec2Model ----
(***************************************************************************)
(* cmrel validate-gomod (cmd/cmrel/cmd/validate_gomod.go).                 *)
(*                                                                         *)
(* runValidateGoMod walks a checkout, parses every go.mod into an          *)
(* internalModule, builds the replaceMap from the core module and the      *)
(* submodules, runs the four checks and fails when any of them reported.   *)
(*                                                                         *)
(* Strings that are paths (module paths, filesystem paths) are modelled as *)
(* the sequence strings.Split(s, "/") of their segments, so "../../" is    *)
(* <<"..", "..", "">> and "cmd/ctl/go.mod" is <<"cmd", "ctl", "go.mod">>.  *)
(* An error value is modelled as a record of the values its format string  *)
(* is filled with.                                                         *)
(***************************************************************************)
EXTENDS Integers, Sequences, FiniteSets, TLC

VARIABLES
    fs,               \* the checkout under o.Path: the parsed go.mod files in walk order
    pc,               \* position in runValidateGoMod
    iml,              \* allInternalModules (Nil before / without findInternalModules)
    validationErrors, \* runValidateGoMod's validationErrors
    logged,           \* the error lines runValidateGoMod logged
    ret,              \* the error runValidateGoMod returned ("running" until it returns)
    calls,            \* the functions runValidateGoMod has called so far, in order
    directImportExemptions, \* module paths the caller lets require the core module
                            \* without a replacement
    noDummyExemptions,      \* module paths the caller lets require an internal module
                            \* at a real version (--no-dummy-modules)
    prev,             \* what the previous run on this checkout built and returned
    running,          \* for each check, when the checks run side by side: the
                      \* index its loop is at and what it has collected so far
    publish,          \* a call of canonicalizeAndVerifyPublishActions (package
                      \* cmd): its argument, the index its loop is at, its set
                      \* actions, what it returned
    wait              \* a call of WaitForBuild (package gcb): the build as the API
                      \* holds it, what the call logged and what it returned

vars == <<fs, pc, iml, validationErrors, logged, ret, calls,
          directImportExemptions, noDummyExemptions, prev, running, publish, wait>>

\* no call of the function is under way
NoCall == [kind |-> "nocall"]

\* what runValidateGoMod and the functions it calls never write: the checkout,
\* the caller's exemptions (validateGoModOptions, lines 69-72, has only Path:
\* nothing in the command reads an exemption) and the record of an earlier run
outside == <<fs, directImportExemptions, noDummyExemptions, prev, running, publish, wait>>

\* ------------------------------------------------------------------ bounds

\* total number of require and replace directives in the checkout's go.mod files
MaxStmts == 3

\* number of entries of the rawActions given to canonicalizeAndVerifyPublishActions
MaxActions == 3

\* the "still in progress" lines WaitForBuild has logged are counted modulo this
MaxPolls == 4

\* ------------------------------------------------------- program constants

dummyCoreImportVersion == "v0.0.0-00010101000000-000000000000"

hardLocalReplace == <<"..", "..", "">>

Nil == [kind |-> "nil"]

\* --------------------------------------------------------- path functions

\* strings.TrimSuffix(p, "go.mod") for a path whose base is "go.mod"
TrimSuffixGoMod(p) ==
    IF Len(p) > 0 /\ p[Len(p)] = "go.mod" THEN [p EXCEPT ![Len(p)] = ""] ELSE p

RECURSIVE CleanAcc(_, _)
\* filepath.Clean of a relative path: drops empty and "." elements and
\* resolves an inner ".." against the element before it
CleanAcc(out, rest) ==
    IF rest = <<>> THEN (IF out = <<>> THEN <<".">> ELSE out)
    ELSE LET e == Head(rest) IN
         IF e = "" \/ e = "." THEN CleanAcc(out, Tail(rest))
         ELSE IF e = ".." /\ out # <<>> /\ out[Len(out)] # ".."
              THEN CleanAcc(SubSeq(out, 1, Len(out) - 1), Tail(rest))
              ELSE CleanAcc(Append(out, e), Tail(rest))

\* filepath.Join(a, b): Clean(a + "/" + b)
FilepathJoin(a, b) == CleanAcc(<<>>, a \o b)

\* s + "/"
AddSlash(p) == Append(p, "")

\* ------------------------------------------------------ findInternalModules

coreModulePath == <<"go.mod">>

MapSet(m, k, v) == [x \in (DOMAIN m) \cup {k} |-> IF x = k THEN v ELSE m[x]]

EmptyMap == [x \in {} |-> Nil]

\* mutant: a go.mod walked before the core go.mod is not taken as a submodule
RECURSIVE walkModulesAfterCore(_, _)
walkModulesAfterCore(acc, files) ==
    IF files = <<>> THEN acc
    ELSE LET newMod == Head(files)
             next == [acc EXCEPT
                        !.modules = Append(@, newMod),
                        !.internalModuleNames = @ \cup {newMod.Name},
                        !.coreModule = IF newMod.LocalRepoPath = coreModulePath
                                       THEN newMod ELSE @,
                        !.submodules = IF newMod.LocalRepoPath = coreModulePath
                                          \/ acc.coreModule = Nil
                                       THEN @ ELSE Append(@, newMod)]
         IN walkModulesAfterCore(next, Tail(files))

RECURSIVE walkModules(_, _)
\* the WalkDir callback, folded over the go.mod files in walk order
walkModules(acc, files) ==
    IF files = <<>> THEN acc
    ELSE LET newMod == Head(files)
             next == [acc EXCEPT
                        !.modules = Append(@, newMod),
                        !.internalModuleNames = @ \cup {newMod.Name},
                        !.coreModule = IF newMod.LocalRepoPath = coreModulePath
                                       THEN newMod ELSE @,
                        !.submodules = IF newMod.LocalRepoPath = coreModulePath
                                       THEN @ ELSE Append(@, newMod)]
         IN walkModules(next, Tail(files))

RECURSIVE coreReplaceMap(_, _)
coreReplaceMap(m, replaces) ==
    IF replaces = <<>> THEN m
    ELSE coreReplaceMap(MapSet(m, Head(replaces).Old.Path, Head(replaces).New),
                        Tail(replaces))

\* mutant: the target of a submodule is its directory as seen from the root
submoduleReplaceFromRoot(submodule) ==
    [Path |-> TrimSuffixGoMod(submodule.LocalRepoPath), Version |-> ""]

\* the canonical target of a submodule
submoduleReplace(submodule) ==
    [Path |-> AddSlash(FilepathJoin(hardLocalReplace,
                                    TrimSuffixGoMod(submodule.LocalRepoPath))),
     Version |-> ""]

\* mutant: the submodules get no entry
submoduleReplaceMapSkipped(m, subs) == m

RECURSIVE submoduleReplaceMap(_, _)
\* lines 245-250
submoduleReplaceMap(m, subs) ==
    IF subs = <<>> THEN m
    ELSE submoduleReplaceMap(MapSet(m, Head(subs).Name, submoduleReplace(Head(subs))),
                             Tail(subs))

\* mutant: the core module is expected three levels up
coreReplaceThreeUp == [Path |-> <<"..", "..", "..", "">>, Version |-> ""]

coreReplace == [Path |-> hardLocalReplace, Version |-> ""]

\* mutant: the core's replaces are inserted after the entries of the internal
\* modules, so a core replace of an internal module's path wins
buildReplaceMapCoreReplacesLast(core, subs) ==
    coreReplaceMap(MapSet(submoduleReplaceMap(EmptyMap, subs), core.Name, coreReplace),
                   core.Replace)

buildReplaceMap(core, subs) ==
    MapSet(submoduleReplaceMap(coreReplaceMap(EmptyMap, core.Replace), subs),
           core.Name, coreReplace)

\* findInternalModules: [err, iml]
findInternalModules(root) ==
    IF root.walkErr THEN [err |-> "walk", iml |-> Nil]
    ELSE LET walked == walkModules([modules |-> <<>>, coreModule |-> Nil,
                                    submodules |-> <<>>,
                                    internalModuleNames |-> {}], root.files)
         IN IF walked.coreModule = Nil
            THEN [err |-> "couldn't find and load core module", iml |-> Nil]
            ELSE [err |-> "nil",
                  iml |-> [modules |-> walked.modules,
                           coreModule |-> walked.coreModule,
                           submodules |-> walked.submodules,
                           internalModuleNames |-> walked.internalModuleNames,
                           replaceMap |-> buildReplaceMap(walked.coreModule,
                                                          walked.submodules)]]

\* --------------------------------------------------------------- the checks

\* mutant: the loop stops at the first local replace
RECURSIVE localReplacesFirstOnly(_)
localReplacesFirstOnly(replaces) ==
    IF replaces = <<>> THEN <<>>
    ELSE IF Head(replaces).New.Version = "" THEN <<Head(replaces).Old.Path>>
         ELSE localReplacesFirstOnly(Tail(replaces))

\* checkCoreModuleReplacements' loop: the Old.Path of every local replace
RECURSIVE localReplaces(_)
localReplaces(replaces) ==
    IF replaces = <<>> THEN <<>>
    ELSE (IF Head(replaces).New.Version = "" THEN <<Head(replaces).Old.Path>> ELSE <<>>)
         \o localReplaces(Tail(replaces))

\* mutant: a local replace of a module of the checkout is let through
checkCoreModuleReplacementsThirdPartyOnly(l) ==
    LET found == localReplaces(SelectSeq(l.coreModule.Replace,
                                         LAMBDA r : r.Old.Path \notin l.internalModuleNames))
    IN IF Len(found) > 0
       THEN [kind |-> "coreLocalReplaces", paths |-> found]
       ELSE Nil

\* checkCoreModuleReplacements: one error naming every local replace, or nil
checkCoreModuleReplacements(l) ==
    LET found == localReplaces(l.coreModule.Replace)
    IN IF Len(found) > 0
       THEN [kind |-> "coreLocalReplaces", paths |-> found]
       ELSE Nil

\* mutant: a replace is recorded as found only when it matches its entry
RECURSIVE foundReplacesMatching(_, _)
foundReplacesMatching(replaces, replaceMap) ==
    IF replaces = <<>> THEN {}
    ELSE (IF Head(replaces).Old.Path \in DOMAIN replaceMap
             /\ Head(replaces).New = replaceMap[Head(replaces).Old.Path]
          THEN {Head(replaces).Old.Path} ELSE {})
         \cup foundReplacesMatching(Tail(replaces), replaceMap)

\* mutant: only a replace of every version of a path (no Old.Version) counts
\* as a replace of the path
RECURSIVE foundReplacesUnversioned(_, _)
foundReplacesUnversioned(replaces, replaceMap) ==
    IF replaces = <<>> THEN {}
    ELSE (IF Head(replaces).Old.Path \in DOMAIN replaceMap
             /\ Head(replaces).Old.Version = ""
          THEN {Head(replaces).Old.Path} ELSE {})
         \cup foundReplacesUnversioned(Tail(replaces), replaceMap)

\* checkReplaces, first loop: the replaces of m with a replaceMap entry
RECURSIVE foundReplaces(_, _)
foundReplaces(replaces, replaceMap) ==
    IF replaces = <<>> THEN {}
    ELSE (IF Head(replaces).Old.Path \in DOMAIN replaceMap
          THEN {Head(replaces).Old.Path} ELSE {})
         \cup foundReplaces(Tail(replaces), replaceMap)

\* mutant: only the target's path is compared, not its version
RECURSIVE replaceErrorsPathOnly(_, _, _)
replaceErrorsPathOnly(name, replaces, replaceMap) ==
    IF replaces = <<>> THEN <<>>
    ELSE LET replaceStmt == Head(replaces)
             rest == replaceErrorsPathOnly(name, Tail(replaces), replaceMap)
         IN IF replaceStmt.Old.Path \notin DOMAIN replaceMap THEN rest
            ELSE LET expectedReplace == replaceMap[replaceStmt.Old.Path]
                 IN IF replaceStmt.New.Path # expectedReplace.Path
                    THEN <<[kind |-> "replaceMismatch", module |-> name,
                            path |-> replaceStmt.Old.Path,
                            got |-> replaceStmt.New,
                            want |-> expectedReplace]>> \o rest
                    ELSE rest

\* mutant: a replace of a path without an entry is reported as a mismatch
RECURSIVE replaceErrorsReportsUnknown(_, _, _)
replaceErrorsReportsUnknown(name, replaces, replaceMap) ==
    IF replaces = <<>> THEN <<>>
    ELSE LET replaceStmt == Head(replaces)
             rest == replaceErrorsReportsUnknown(name, Tail(replaces), replaceMap)
             expectedReplace == IF replaceStmt.Old.Path \in DOMAIN replaceMap
                                THEN replaceMap[replaceStmt.Old.Path]
                                ELSE [Path |-> <<>>, Version |-> ""]
         IN IF replaceStmt.New # expectedReplace
            THEN <<[kind |-> "replaceMismatch", module |-> name,
                    path |-> replaceStmt.Old.Path,
                    got |-> replaceStmt.New,
                    want |-> expectedReplace]>> \o rest
            ELSE rest

\* checkReplaces, first loop: one error per replace that differs from its entry
RECURSIVE replaceErrors(_, _, _)
replaceErrors(name, replaces, replaceMap) ==
    IF replaces = <<>> THEN <<>>
    ELSE LET replaceStmt == Head(replaces)
             rest == replaceErrors(name, Tail(replaces), replaceMap)
         IN IF replaceStmt.Old.Path \notin DOMAIN replaceMap THEN rest
            ELSE LET expectedReplace == replaceMap[replaceStmt.Old.Path]
                 IN IF replaceStmt.New.Path # expectedReplace.Path
                       \/ replaceStmt.New.Version # expectedReplace.Version
                    THEN <<[kind |-> "replaceMismatch", module |-> name,
                            path |-> replaceStmt.Old.Path,
                            got |-> replaceStmt.New,
                            want |-> expectedReplace]>> \o rest
                    ELSE rest

\* mutant: a module exempted from the dummy version is exempted from the
\* missing-replace check as well
RECURSIVE requireErrorsSkipNoDummy(_, _, _, _)
requireErrorsSkipNoDummy(name, requires, found, replaceMap) ==
    IF requires = <<>> \/ name \in noDummyExemptions THEN <<>>
    ELSE LET requireStmt == Head(requires)
             rest == requireErrorsSkipNoDummy(name, Tail(requires), found, replaceMap)
         IN IF requireStmt.Path \in DOMAIN replaceMap /\ requireStmt.Path \notin found
            THEN <<[kind |-> "missingReplace", module |-> name,
                    path |-> requireStmt.Path,
                    want |-> replaceMap[requireStmt.Path]]>> \o rest
            ELSE rest

\* checkReplaces, second loop: one error per require with an entry and no replace
RECURSIVE requireErrors(_, _, _, _)
requireErrors(name, requires, found, replaceMap) ==
    IF requires = <<>> THEN <<>>
    ELSE LET requireStmt == Head(requires)
             rest == requireErrors(name, Tail(requires), found, replaceMap)
         IN IF requireStmt.Path \notin DOMAIN replaceMap THEN rest
            ELSE IF requireStmt.Path \notin found
                 THEN <<[kind |-> "missingReplace", module |-> name,
                         path |-> requireStmt.Path,
                         want |-> replaceMap[requireStmt.Path]]>> \o rest
                 ELSE rest

\* mutant: the requires of the module are not looked at
moduleReplaceErrorsReplacesOnly(m, replaceMap) ==
    replaceErrors(m.Name, m.Replace, replaceMap)

\* checkReplaces' body for one module
moduleReplaceErrors(m, replaceMap) ==
    replaceErrors(m.Name, m.Replace, replaceMap)
    \o requireErrors(m.Name, m.Require, foundReplaces(m.Replace, replaceMap), replaceMap)

RECURSIVE checkReplacesLoop(_, _)
checkReplacesLoop(modules, replaceMap) ==
    IF modules = <<>> THEN <<>>
    ELSE moduleReplaceErrors(Head(modules), replaceMap)
         \o checkReplacesLoop(Tail(modules), replaceMap)

checkReplaces(l) == checkReplacesLoop(l.modules, l.replaceMap)

\* mutant: every require is held to the dummy version, internal or not
RECURSIVE requirementErrorsAnyPath(_, _, _)
requirementErrorsAnyPath(name, requires, internalModuleNames) ==
    IF requires = <<>> THEN <<>>
    ELSE (IF Head(requires).Version # dummyCoreImportVersion
          THEN <<[kind |-> "nonDummy", module |-> name,
                  path |-> Head(requires).Path,
                  want |-> dummyCoreImportVersion]>>
          ELSE <<>>)
         \o requirementErrorsAnyPath(name, Tail(requires), internalModuleNames)

\* checkInternalModuleRequirements' inner loop
RECURSIVE requirementErrors(_, _, _)
requirementErrors(name, requires, internalModuleNames) ==
    IF requires = <<>> THEN <<>>
    ELSE LET requireStmt == Head(requires)
             rest == requirementErrors(name, Tail(requires), internalModuleNames)
         IN IF requireStmt.Path \notin internalModuleNames THEN rest
            ELSE IF requireStmt.Version # dummyCoreImportVersion
                 THEN <<[kind |-> "nonDummy", module |-> name,
                         path |-> requireStmt.Path,
                         want |-> dummyCoreImportVersion]>> \o rest
                 ELSE rest

RECURSIVE checkRequirementsLoop(_, _)
checkRequirementsLoop(modules, internalModuleNames) ==
    IF modules = <<>> THEN <<>>
    ELSE requirementErrors(Head(modules).Name, Head(modules).Require, internalModuleNames)
         \o checkRequirementsLoop(Tail(modules), internalModuleNames)

checkInternalModuleRequirements(l) ==
    checkRequirementsLoop(l.modules, l.internalModuleNames)

\* mutant: the loop returns at the first submodule that differs
RECURSIVE goVersionErrorsFirstOnly(_, _)
goVersionErrorsFirstOnly(subs, coreGoVersion) ==
    IF subs = <<>> THEN <<>>
    ELSE IF Head(subs).Go # coreGoVersion
         THEN <<[kind |-> "goVersion", module |-> Head(subs).Name,
                 got |-> Head(subs).Go, want |-> coreGoVersion]>>
         ELSE goVersionErrorsFirstOnly(Tail(subs), coreGoVersion)

RECURSIVE goVersionErrors(_, _)
\* checkGoVersions' loop
goVersionErrors(subs, coreGoVersion) ==
    IF subs = <<>> THEN <<>>
    ELSE (IF Head(subs).Go # coreGoVersion
          THEN <<[kind |-> "goVersion", module |-> Head(subs).Name,
                  got |-> Head(subs).Go, want |-> coreGoVersion]>>
          ELSE <<>>)
         \o goVersionErrors(Tail(subs), coreGoVersion)

checkGoVersions(l) == goVersionErrors(l.submodules, l.coreModule.Go)

\* ---------------------------------------------------------- runValidateGoMod

\* mutant: a failure of findInternalModules is collected as a validation error
FindStepCollectsFailure ==
    /\ pc = "find"
    /\ LET r == findInternalModules(fs)
       IN /\ calls' = Append(calls, "findInternalModules")
          /\ IF r.err # "nil"
             THEN /\ validationErrors' = Append(validationErrors,
                                                [kind |-> "find", err |-> r.err])
                  /\ pc' = "report"
                  /\ UNCHANGED iml
             ELSE /\ iml' = r.iml
                  /\ pc' = "checkReplaces"
                  /\ UNCHANGED validationErrors
    /\ UNCHANGED <<outside, ret, logged>>

\* mutant: the core's replaces are kept in a Go map and ranged over, so the
\* order in which they reach the replaceMap differs from build to build
FindStepUnorderedReplaces ==
    /\ pc = "find"
    /\ LET r == findInternalModules(fs)
       IN /\ calls' = Append(calls, "findInternalModules")
          /\ IF r.err # "nil"
             THEN /\ ret' = "failed to find all submodules"
                  /\ pc' = "done"
                  /\ UNCHANGED iml
             ELSE /\ \E f \in Permutations(DOMAIN r.iml.coreModule.Replace) :
                        LET shuffled == [i \in DOMAIN r.iml.coreModule.Replace |->
                                            r.iml.coreModule.Replace[f[i]]]
                        IN iml' = [r.iml EXCEPT !.replaceMap =
                                      buildReplaceMap([r.iml.coreModule EXCEPT
                                                         !.Replace = shuffled],
                                                      r.iml.submodules)]
                  /\ pc' = "checkReplaces"
                  /\ UNCHANGED ret
    /\ UNCHANGED <<outside, validationErrors, logged>>

\* lines 111-114
FindStep ==
    /\ pc = "find"
    /\ LET r == findInternalModules(fs)
       IN /\ calls' = Append(calls, "findInternalModules")
          /\ IF r.err # "nil"
             THEN /\ ret' = "failed to find all submodules"
                  /\ pc' = "done"
                  /\ UNCHANGED iml
             ELSE /\ iml' = r.iml
                  /\ pc' = "checkReplaces"
                  /\ UNCHANGED ret
    /\ UNCHANGED <<outside, validationErrors, logged>>

\* mutant: the modules are ranged over as a Go map and the loop stops at the
\* first module with errors, so which errors are reported differs between runs
CheckReplacesStepAnyModule ==
    /\ pc = "checkReplaces"
    /\ \/ /\ checkReplaces(iml) = <<>>
          /\ UNCHANGED validationErrors
       \/ \E i \in DOMAIN iml.modules :
             /\ moduleReplaceErrors(iml.modules[i], iml.replaceMap) # <<>>
             /\ validationErrors' = validationErrors
                    \o moduleReplaceErrors(iml.modules[i], iml.replaceMap)
    /\ calls' = Append(calls, "checkReplaces")
    /\ pc' = "checkCoreModuleReplacements"
    /\ UNCHANGED <<outside, iml, logged, ret>>

\* lines 116-118
CheckReplacesStep ==
    /\ pc = "checkReplaces"
    /\ LET errs == checkReplaces(iml)
       IN validationErrors' = IF Len(errs) > 0 THEN validationErrors \o errs
                              ELSE validationErrors
    /\ calls' = Append(calls, "checkReplaces")
    /\ pc' = "checkCoreModuleReplacements"
    /\ UNCHANGED <<outside, iml, logged, ret>>

\* mutant: the error of checkCoreModuleReplacements is put in front of the list
CheckCoreModuleReplacementsStepInFront ==
    /\ pc = "checkCoreModuleReplacements"
    /\ LET err == checkCoreModuleReplacements(iml)
       IN validationErrors' = IF err # Nil THEN <<err>> \o validationErrors
                              ELSE validationErrors
    /\ calls' = Append(calls, "checkCoreModuleReplacements")
    /\ pc' = "checkInternalModuleRequirements"
    /\ UNCHANGED <<outside, iml, logged, ret>>

\* lines 120-122
CheckCoreModuleReplacementsStep ==
    /\ pc = "checkCoreModuleReplacements"
    /\ LET err == checkCoreModuleReplacements(iml)
       IN validationErrors' = IF err # Nil THEN Append(validationErrors, err)
                              ELSE validationErrors
    /\ calls' = Append(calls, "checkCoreModuleReplacements")
    /\ pc' = "checkInternalModuleRequirements"
    /\ UNCHANGED <<outside, iml, logged, ret>>

\* lines 124-126
CheckInternalModuleRequirementsStep ==
    /\ pc = "checkInternalModuleRequirements"
    /\ LET errs == checkInternalModuleRequirements(iml)
       IN validationErrors' = IF Len(errs) > 0 THEN validationErrors \o errs
                              ELSE validationErrors
    /\ calls' = Append(calls, "checkInternalModuleRequirements")
    /\ pc' = "checkGoVersions"
    /\ UNCHANGED <<outside, iml, logged, ret>>

\* mutant: checkGoVersions is skipped once an earlier check has reported
CheckGoVersionsStepShortCircuit ==
    /\ pc = "checkGoVersions"
    /\ IF Len(validationErrors) > 0
       THEN UNCHANGED <<validationErrors, calls>>
       ELSE /\ validationErrors' = validationErrors \o checkGoVersions(iml)
            /\ calls' = Append(calls, "checkGoVersions")
    /\ pc' = "report"
    /\ UNCHANGED <<outside, iml, logged, ret>>

\* mutant: checkGoVersions sets the Go version of every submodule it reports
\* to the core's, in the module list
CheckGoVersionsStepAligns ==
    /\ pc = "checkGoVersions"
    /\ LET errs == checkGoVersions(iml)
       IN validationErrors' = IF Len(errs) > 0 THEN validationErrors \o errs
                              ELSE validationErrors
    /\ iml' = [iml EXCEPT !.submodules =
                  [i \in DOMAIN iml.submodules |->
                      [iml.submodules[i] EXCEPT !.Go = iml.coreModule.Go]]]
    /\ calls' = Append(calls, "checkGoVersions")
    /\ pc' = "report"
    /\ UNCHANGED <<outside, logged, ret>>

\* lines 128-130
CheckGoVersionsStep ==
    /\ pc = "checkGoVersions"
    /\ LET errs == checkGoVersions(iml)
       IN validationErrors' = IF Len(errs) > 0 THEN validationErrors \o errs
                              ELSE validationErrors
    /\ calls' = Append(calls, "checkGoVersions")
    /\ pc' = "report"
    /\ UNCHANGED <<outside, iml, logged, ret>>

\* mutant: a single validation error does not fail the run
ReportStepToleratesOne ==
    /\ pc = "report"
    /\ IF Len(validationErrors) > 1
       THEN /\ logged' = validationErrors
            /\ ret' = "validation failed"
       ELSE /\ ret' = "nil"
            /\ UNCHANGED logged
    /\ pc' = "done"
    /\ UNCHANGED <<outside, iml, validationErrors, calls>>

\* lines 132-141
ReportStep ==
    /\ pc = "report"
    /\ IF Len(validationErrors) > 0
       THEN /\ logged' = validationErrors
            /\ ret' = "validation failed"
       ELSE /\ ret' = "nil"
            /\ UNCHANGED logged
    /\ pc' = "done"
    /\ UNCHANGED <<outside, iml, validationErrors, calls>>

\* ------------------------------------------------------------ the checkouts

CoreName == <<"example.com", "core">>
CmctlName == <<"example.com", "cmctl">>
E2EName == <<"example.com", "e2e-tests">>
DepName == <<"example.org", "somedependency">>

GoVersions == {"1.19", "1.18"}

RequireVersions == {dummyCoreImportVersion, "v1.11.0"}

LocalRoot == [Path |-> <<"..", "..", "">>, Version |-> ""]
LocalCtl == [Path |-> <<"..", "..", "cmd", "ctl", "">>, Version |-> ""]
PinA == [Path |-> DepName, Version |-> "v1.0.1"]
PinB == [Path |-> DepName, Version |-> "v1.1.2"]

Req(p, v) == [Path |-> p, Version |-> v]

Rep(p, ov, t) == [Old |-> [Path |-> p, Version |-> ov], New |-> t]

\* the directives the core go.mod may carry: it requires a submodule, pins the
\* third-party dependency (twice, differently), replaces it or a submodule by a
\* directory, pins a submodule
CoreRequires == {Req(CmctlName, v) : v \in RequireVersions}

CoreReplaces ==
    {Rep(DepName, "", PinA), Rep(DepName, "v1.0.0", PinB), Rep(DepName, "", LocalCtl),
     Rep(CmctlName, "", LocalCtl), Rep(CmctlName, "", PinA)}

\* the directives the submodule test/e2e/go.mod may carry
E2ERequires ==
    {Req(p, v) : p \in {CoreName, CmctlName}, v \in RequireVersions}
    \cup {Req(DepName, "v1.11.0")}

E2EReplaces ==
    {Rep(CoreName, "", t) : t \in {LocalRoot, LocalCtl}}
    \cup {Rep(CmctlName, "", t) : t \in {LocalCtl, PinA}}
    \cup {Rep(DepName, "", t) : t \in {PinA, PinB}}
    \cup {Rep(DepName, "v1.0.0", PinA)}

GoMod(name, path, go, require, replace) ==
    [Name |-> name, LocalRepoPath |-> path, Go |-> go,
     Require |-> require, Replace |-> replace]

NoFile == [none |-> TRUE]

\* WalkDir visits a directory's entries in lexical order: cmd/, go.mod, test/
Checkout(cmctl, core, e2e) ==
    [walkErr |-> FALSE,
     files |-> SelectSeq(<<cmctl, core, e2e>>, LAMBDA f : f # NoFile)]

CmctlFiles ==
    {NoFile} \cup {GoMod(CmctlName, <<"cmd", "ctl", "go.mod">>, g, <<>>, <<>>) :
                     g \in GoVersions}

CoreFile(rq, rp) == GoMod(CoreName, <<"go.mod">>, "1.19", rq, rp)

\* the e2e module's go.mod at a given place of the checkout
E2EFileAt(path, g, rq, rp) == GoMod(E2EName, path, g, rq, rp)

E2EFile(g, rq, rp) == E2EFileAt(<<"test", "e2e", "go.mod">>, g, rq, rp)

\* -------------------------------------------------------------------- spec

\* a checkout with a core go.mod, the e2e module's go.mod (if any) at path,
\* and at most n directives in all
InitCheckoutAt(n, path) ==
    \E a \in 0..n : \E b \in 0..(n - a) :
    \E crq \in [1..a -> CoreRequires], crp \in [1..b -> CoreReplaces],
       cmctl \in CmctlFiles :
        \/ fs = Checkout(cmctl, CoreFile(crq, crp), NoFile)
        \/ \E c \in 0..(n - a - b) : \E d \in 0..(n - a - b - c) :
           \E erq \in [1..c -> E2ERequires], erp \in [1..d -> E2EReplaces],
              g \in GoVersions :
                fs = Checkout(cmctl, CoreFile(crq, crp), E2EFileAt(path, g, erq, erp))

InitCheckoutOf(n) == InitCheckoutAt(n, <<"test", "e2e", "go.mod">>)

InitCheckout == InitCheckoutOf(MaxStmts)

\* a checkout without a core go.mod
InitNoCore ==
    \E cmctl \in CmctlFiles :
        \/ fs = Checkout(cmctl, NoFile, NoFile)
        \/ \E c \in 0..1 : \E d \in 0..(1 - c) :
           \E erq \in [1..c -> E2ERequires], erp \in [1..d -> E2EReplaces],
              g \in GoVersions :
                fs = Checkout(cmctl, NoFile, E2EFile(g, erq, erp))

\* a walk that failed on a directory or on a go.mod that does not parse
InitWalkError == fs = [walkErr |-> TRUE, files |-> <<>>]

\* no run has been made on the checkout yet
NoRun == [kind |-> "norun"]

\* every check's loop is at its first item and has collected nothing
NotStarted ==
    [c \in {"checkReplaces", "checkCoreModuleReplacements",
             "checkInternalModuleRequirements", "checkGoVersions"} |->
        [at |-> 1, errs |-> <<>>]]

\* runValidateGoMod is entered
Entered ==
    /\ pc = "find"
    /\ iml = Nil
    /\ validationErrors = <<>>
    /\ logged = <<>>
    /\ ret = "running"
    /\ calls = <<>>
    /\ prev = NoRun
    /\ running = NotStarted
    /\ publish = NoCall
    /\ wait = NoCall

Init ==
    /\ (InitCheckout \/ InitNoCore \/ InitWalkError)
    /\ Entered
    /\ directImportExemptions = {}
    /\ noDummyExemptions = {}

Next ==
    \/ FindStep
    \/ CheckReplacesStep
    \/ CheckCoreModuleReplacementsStep
    \/ CheckInternalModuleRequirementsStep
    \/ CheckGoVersionsStep
    \/ ReportStep

Spec == Init /\ [][Next]_vars

\* the sets of module paths a caller may exempt: none, or test/e2e's module
ExemptionSets == {{}, {E2EName}}

\* the command is called with exemptions (hack/test-validate-gomod.sh passes
\* --no-dummy-modules) on a checkout of at most MaxStmts - 1 directives
InitExemptions ==
    /\ InitCheckoutOf(MaxStmts - 1)
    /\ Entered
    /\ directImportExemptions \in ExemptionSets
    /\ noDummyExemptions \in ExemptionSets

SpecExemptions == InitExemptions /\ [][Next]_vars

\* where the e2e module's go.mod may lie: two levels below the root, as every
\* submodule of the test checkout, or one level below it
E2EPaths == {<<"test", "e2e", "go.mod">>, <<"test", "go.mod">>}

\* the submodules of the checkout lie at different depths
InitLocations ==
    /\ \E path \in E2EPaths : InitCheckoutAt(MaxStmts - 1, path)
    /\ Entered
    /\ directImportExemptions = {}
    /\ noDummyExemptions = {}

SpecLocations == InitLocations /\ [][Next]_vars

\* the caller runs the command again on the same checkout with the same
\* exemptions (RunE, lines 98-100): a new call starts from fresh locals
Rerun ==
    /\ pc = "done"
    /\ prev = NoRun
    /\ prev' = [iml |-> iml, validationErrors |-> validationErrors,
                logged |-> logged, ret |-> ret]
    /\ pc' = "find"
    /\ iml' = Nil
    /\ validationErrors' = <<>>
    /\ logged' = <<>>
    /\ ret' = "running"
    /\ calls' = <<>>
    /\ UNCHANGED <<fs, directImportExemptions, noDummyExemptions, running, publish, wait>>

NextTwice == Next \/ Rerun

InitTwice ==
    /\ (InitCheckoutOf(MaxStmts - 1) \/ InitNoCore \/ InitWalkError)
    /\ Entered
    /\ directImportExemptions \in ExemptionSets
    /\ noDummyExemptions \in ExemptionSets

SpecTwice == InitTwice /\ [][NextTwice]_vars

\* ------------------------------------------------- the checks side by side

\* The four checks as four processes started where runValidateGoMod begins
\* to check (line 116), each stepping through its own loop, one iteration
\* per step, over the one internalModuleList.

\* checkReplaces, the body of its loop over iml.modules for one module
CheckReplacesProc ==
    /\ pc = "checkReplaces"
    /\ LET me == running["checkReplaces"]
       IN /\ me.at <= Len(iml.modules)
          /\ running' = [running EXCEPT !["checkReplaces"] =
                [at |-> me.at + 1,
                 errs |-> me.errs \o moduleReplaceErrors(iml.modules[me.at],
                                                         iml.replaceMap)]]
    /\ UNCHANGED <<fs, pc, iml, validationErrors, logged, ret, calls,
                   directImportExemptions, noDummyExemptions, prev, publish, wait>>

\* mutant: checkCoreModuleReplacements rewrites a local replace it finds, in
\* the module list the other checks read, into a pin
CheckCoreModuleReplacementsProcRewrites ==
    /\ pc = "checkReplaces"
    /\ LET me == running["checkCoreModuleReplacements"]
           k == CHOOSE k \in DOMAIN iml.modules : iml.modules[k] = iml.coreModule
           stmt == iml.coreModule.Replace[me.at]
           fixed == IF stmt.New.Version = ""
                    THEN [iml.coreModule EXCEPT !.Replace[me.at].New =
                             [Path |-> stmt.Old.Path, Version |-> "v0.0.0"]]
                    ELSE iml.coreModule
       IN /\ me.at <= Len(iml.coreModule.Replace)
          /\ running' = [running EXCEPT !["checkCoreModuleReplacements"] =
                [at |-> me.at + 1, errs |-> me.errs \o localReplaces(<<stmt>>)]]
          /\ iml' = [iml EXCEPT !.coreModule = fixed, !.modules[k] = fixed]
    /\ UNCHANGED <<fs, pc, validationErrors, logged, ret, calls,
                   directImportExemptions, noDummyExemptions, prev, publish, wait>>

\* checkCoreModuleReplacements, the body of its loop for one replace of the
\* core module: errs holds localReplaces
CheckCoreModuleReplacementsProc ==
    /\ pc = "checkReplaces"
    /\ LET me == running["checkCoreModuleReplacements"]
       IN /\ me.at <= Len(iml.coreModule.Replace)
          /\ running' = [running EXCEPT !["checkCoreModuleReplacements"] =
                [at |-> me.at + 1,
                 errs |-> me.errs \o localReplaces(<<iml.coreModule.Replace[me.at]>>)]]
    /\ UNCHANGED <<fs, pc, iml, validationErrors, logged, ret, calls,
                   directImportExemptions, noDummyExemptions, prev, publish, wait>>

\* checkInternalModuleRequirements, the body of its outer loop for one module
CheckInternalModuleRequirementsProc ==
    /\ pc = "checkReplaces"
    /\ LET me == running["checkInternalModuleRequirements"]
       IN /\ me.at <= Len(iml.modules)
          /\ running' = [running EXCEPT !["checkInternalModuleRequirements"] =
                [at |-> me.at + 1,
                 errs |-> me.errs \o requirementErrors(iml.modules[me.at].Name,
                                                       iml.modules[me.at].Require,
                                                       iml.internalModuleNames)]]
    /\ UNCHANGED <<fs, pc, iml, validationErrors, logged, ret, calls,
                   directImportExemptions, noDummyExemptions, prev, publish, wait>>

\* checkGoVersions, the body of its loop for one submodule
CheckGoVersionsProc ==
    /\ pc = "checkReplaces"
    /\ LET me == running["checkGoVersions"]
       IN /\ me.at <= Len(iml.submodules)
          /\ running' = [running EXCEPT !["checkGoVersions"] =
                [at |-> me.at + 1,
                 errs |-> me.errs \o goVersionErrors(<<iml.submodules[me.at]>>,
                                                     iml.coreModule.Go)]]
    /\ UNCHANGED <<fs, pc, iml, validationErrors, logged, ret, calls,
                   directImportExemptions, noDummyExemptions, prev, publish, wait>>

\* the loop of the check has run to its end
Finished(c) ==
    running[c].at >
       (IF c = "checkCoreModuleReplacements" THEN Len(iml.coreModule.Replace)
        ELSE IF c = "checkGoVersions" THEN Len(iml.submodules)
        ELSE Len(iml.modules))

\* what the check returns once its loop has run to its end
Returned(c) ==
    IF c # "checkCoreModuleReplacements" THEN running[c].errs
    ELSE IF Len(running[c].errs) > 0
         THEN <<[kind |-> "coreLocalReplaces", paths |-> running[c].errs]>>
         ELSE <<>>

\* runValidateGoMod appends what the checks returned in the order of lines 116-130
JoinStep ==
    /\ pc = "checkReplaces"
    /\ \A c \in DOMAIN running : Finished(c)
    /\ validationErrors' = validationErrors
          \o Returned("checkReplaces") \o Returned("checkCoreModuleReplacements")
          \o Returned("checkInternalModuleRequirements") \o Returned("checkGoVersions")
    /\ calls' = calls \o <<"checkReplaces", "checkCoreModuleReplacements",
                            "checkInternalModuleRequirements", "checkGoVersions">>
    /\ pc' = "report"
    /\ UNCHANGED <<outside, iml, logged, ret>>

InitSideBySide ==
    /\ InitCheckoutOf(MaxStmts - 1)
    /\ Entered
    /\ directImportExemptions = {}
    /\ noDummyExemptions = {}

NextSideBySide ==
    \/ FindStep
    \/ CheckReplacesProc
    \/ CheckCoreModuleReplacementsProc
    \/ CheckInternalModuleRequirementsProc
    \/ CheckGoVersionsProc
    \/ JoinStep
    \/ ReportStep

SpecSideBySide == InitSideBySide /\ [][NextSideBySide]_vars

\* ------------------------------------ canonicalizeAndVerifyPublishActions

\* A string is modelled as the sequence of its pieces: a space, a "-", a "*"
\* or a word; "  HELMCHARTPR " is <<" ", " ", "HELMCHARTPR", " ">>.

\* the keys of publishActionMap
publishActionMap == {<<"helmchartpr">>, <<"githubrelease">>, <<"pushcontainerimages">>}

\* allPublishActionNames: the keys, sorted
allPublishActionNames ==
    <<<<"githubrelease">>, <<"helmchartpr">>, <<"pushcontainerimages">>>>

\* strings.ToLower
ToLower(str) ==
    [i \in DOMAIN str |->
        IF str[i] = "HELMCHARTPR" THEN "helmchartpr"
        ELSE IF str[i] = "GITHUBRELEASE" THEN "githubrelease"
        ELSE str[i]]

RECURSIVE TrimSpace(_)
\* strings.TrimSpace
TrimSpace(str) ==
    IF str = <<>> THEN str
    ELSE IF Head(str) = " " THEN TrimSpace(Tail(str))
    ELSE IF str[Len(str)] = " " THEN TrimSpace(SubSeq(str, 1, Len(str) - 1))
    ELSE str

\* strings.HasPrefix(str, "-")
HasPrefixMinus(str) == str # <<>> /\ Head(str) = "-"

\* strings.TrimPrefix(str, "-")
TrimPrefixMinus(str) == IF HasPrefixMinus(str) THEN Tail(str) ELSE str

\* sets.String.List: the elements in alphabetical order
List(set) == SelectSeq(allPublishActionNames, LAMBDA name : name \in set)

\* the call has not returned
Running == [kind |-> "running"]

\* return nil, fmt.Errorf("unknown action %q", rawAction)
unknownAction(rawAction) ==
    [kind |-> "returned", list |-> Nil,
     err |-> [kind |-> "unknown action", rawAction |-> rawAction]]

\* mutant: the action is deleted under its name with the "-" still in front
PublishStepDeletesPrefixed ==
    /\ publish # NoCall
    /\ publish.ret = Running
    /\ publish.i <= Len(publish.rawActions)
    /\ LET rawAction == publish.rawActions[publish.i]
           action == ToLower(TrimSpace(rawAction))
           next == [publish EXCEPT !.i = @ + 1]
       IN publish' =
            IF Len(action) = 0 THEN next
            ELSE IF action = <<"*">>
            THEN [next EXCEPT !.actions = @ \cup publishActionMap]
            ELSE IF TrimPrefixMinus(action) \notin publishActionMap
            THEN [publish EXCEPT !.ret = unknownAction(rawAction)]
            ELSE IF HasPrefixMinus(action)
            THEN [next EXCEPT !.actions = @ \ {action}]
            ELSE [next EXCEPT !.actions = @ \cup {action}]
    /\ UNCHANGED <<fs, pc, iml, validationErrors, logged, ret, calls,
                   directImportExemptions, noDummyExemptions, prev, running, wait>>

\* mutant: only an action to insert is looked up in publishActionMap
PublishStepChecksInsertsOnly ==
    /\ publish # NoCall
    /\ publish.ret = Running
    /\ publish.i <= Len(publish.rawActions)
    /\ LET rawAction == publish.rawActions[publish.i]
           action == ToLower(TrimSpace(rawAction))
           next == [publish EXCEPT !.i = @ + 1]
       IN publish' =
            IF Len(action) = 0 THEN next
            ELSE IF action = <<"*">>
            THEN [next EXCEPT !.actions = @ \cup publishActionMap]
            ELSE IF HasPrefixMinus(action)
            THEN [next EXCEPT !.actions = @ \ {TrimPrefixMinus(action)}]
            ELSE IF action \notin publishActionMap
            THEN [publish EXCEPT !.ret = unknownAction(rawAction)]
            ELSE [next EXCEPT !.actions = @ \cup {action}]
    /\ UNCHANGED <<fs, pc, iml, validationErrors, logged, ret, calls,
                   directImportExemptions, noDummyExemptions, prev, running, wait>>

\* one iteration of the loop over rawActions
PublishStep ==
    /\ publish # NoCall
    /\ publish.ret = Running
    /\ publish.i <= Len(publish.rawActions)
    /\ LET rawAction == publish.rawActions[publish.i]
           action == ToLower(TrimSpace(rawAction))
           next == [publish EXCEPT !.i = @ + 1]
       IN publish' =
            IF Len(action) = 0 THEN next
            ELSE IF action = <<"*">>
            THEN [next EXCEPT !.actions = @ \cup publishActionMap]
            ELSE IF TrimPrefixMinus(action) \notin publishActionMap
            THEN [publish EXCEPT !.ret = unknownAction(rawAction)]
            ELSE IF HasPrefixMinus(action)
            THEN [next EXCEPT !.actions = @ \ {TrimPrefixMinus(action)}]
            ELSE [next EXCEPT !.actions = @ \cup {action}]
    /\ UNCHANGED <<fs, pc, iml, validationErrors, logged, ret, calls,
                   directImportExemptions, noDummyExemptions, prev, running, wait>>

\* return actions.List(), nil
PublishReturn ==
    /\ publish # NoCall
    /\ publish.ret = Running
    /\ publish.i > Len(publish.rawActions)
    /\ publish' = [publish EXCEPT !.ret =
            [kind |-> "returned", list |-> [names |-> List(publish.actions)],
             err |-> Nil]]
    /\ UNCHANGED <<fs, pc, iml, validationErrors, logged, ret, calls,
                   directImportExemptions, noDummyExemptions, prev, running, wait>>

\* the entries a caller may pass: "", " ", "*", " * ", the action names,
\* "  HELMCHARTPR ", removals, "- helmchartpr", "--helmchartpr", "-", "-*",
\* "notanaction", "-notanaction", two names run together
RawActions ==
    {<<>>, <<" ">>, <<"*">>, <<" ", "*", " ">>,
     <<"helmchartpr">>, <<"githubrelease">>, <<"pushcontainerimages">>,
     <<" ", " ", "HELMCHARTPR", " ">>,
     <<"-", "helmchartpr">>, <<"-", "githubrelease">>, <<" ", "-", "HELMCHARTPR">>,
     <<"-", " ", "helmchartpr">>, <<"-", "-", "helmchartpr">>, <<"-">>, <<"-", "*">>,
     <<"notanaction">>, <<"-", "notanaction">>, <<"helmchartpr", "githubrelease">>}

\* runValidateGoMod is not called
NoValidation ==
    /\ fs = NoCall
    /\ pc = "idle"
    /\ iml = Nil
    /\ validationErrors = <<>>
    /\ logged = <<>>
    /\ ret = "running"
    /\ calls = <<>>
    /\ directImportExemptions = {}
    /\ noDummyExemptions = {}
    /\ prev = NoRun
    /\ running = NotStarted

InitPublish ==
    /\ NoValidation
    /\ wait = NoCall
    /\ \E n \in 0..MaxActions : \E rawActions \in [1..n -> RawActions] :
          publish = [rawActions |-> rawActions, i |-> 1, actions |-> {},
                     ret |-> Running]

NextPublish == PublishStep \/ PublishReturn

SpecPublish == InitPublish /\ [][NextPublish]_vars

\* ------------------------------------------------------------ WaitForBuild

Success == "SUCCESS"
Failure == "FAILURE"

\* Build.Status of the Cloud Build API while the build has not ended
InProgress == {"QUEUED", "WORKING"}

\* Build.Status of the Cloud Build API once the build has ended
Completed == {Success, Failure, "INTERNAL_ERROR", "TIMEOUT", "CANCELLED", "EXPIRED"}

BuildIds == {"build-1", "build-2"}

\* the build as svc.Projects.Builds.Get hands it out
BuildCopy == [Id |-> wait.id, Status |-> wait.status]

\* the build moves on at the service: queued, working, ended; an ended build
\* keeps its status
BuildProgresses ==
    /\ wait # NoCall
    /\ wait.status \in InProgress
    /\ \E status \in {"WORKING"} \cup Completed :
          /\ wait.status = "WORKING" => status \in Completed
          /\ wait' = [wait EXCEPT !.status = status]
    /\ UNCHANGED <<fs, pc, iml, validationErrors, logged, ret, calls,
                   directImportExemptions, noDummyExemptions, prev, running, publish>>

\* a poll whose Get fails: PollInfinite stops, WaitForBuild returns nil, err
PollFails ==
    /\ wait # NoCall
    /\ wait.ret = Running
    /\ wait' = [wait EXCEPT !.ret =
            [kind |-> "returned", build |-> Nil, err |-> [kind |-> "api error"]]]
    /\ UNCHANGED <<fs, pc, iml, validationErrors, logged, ret, calls,
                   directImportExemptions, noDummyExemptions, prev, running, publish>>

\* a poll that finds Success or Failure: done, WaitForBuild returns build, nil
PollDone ==
    /\ wait # NoCall
    /\ wait.ret = Running
    /\ wait.status = Success \/ wait.status = Failure
    /\ wait' = [wait EXCEPT !.ret =
            [kind |-> "returned", build |-> BuildCopy, err |-> Nil]]
    /\ UNCHANGED <<fs, pc, iml, validationErrors, logged, ret, calls,
                   directImportExemptions, noDummyExemptions, prev, running, publish>>

\* a poll that finds any other status: "still in progress..." is logged and
\* the poll is repeated after five seconds
PollStillInProgress ==
    /\ wait # NoCall
    /\ wait.ret = Running
    /\ ~(wait.status = Success \/ wait.status = Failure)
    /\ wait' = [wait EXCEPT !.polls = (@ + 1) % MaxPolls]
    /\ UNCHANGED <<fs, pc, iml, validationErrors, logged, ret, calls,
                   directImportExemptions, noDummyExemptions, prev, running, publish>>

\* the function PollInfinite calls every five seconds
Poll == PollFails \/ PollDone \/ PollStillInProgress

InitWait ==
    /\ NoValidation
    /\ publish = NoCall
    /\ \E id \in BuildIds : \E status \in InProgress :
          wait = [id |-> id, status |-> status, polls |-> 0, ret |-> Running]

NextWait == BuildProgresses \/ PollFails \/ PollDone \/ PollStillInProgress

\* PollInfinite never gives up: the poll is run again and again
SpecWait == InitWait /\ [][NextWait]_vars /\ WF_vars(Poll)

\* ------------------------------------------------------ reading the outcome

Range(s) == {s[i] : i \in DOMAIN s}

\* how often e occurs in the sequence s
Occ(s, e) == Cardinality({i \in DOMAIN s : s[i] = e})

\* runValidateGoMod has returned after running the checks
Validated == pc = "done" /\ iml # Nil

\* runValidateGoMod has returned nil
ReturnedOk == pc = "done" /\ ret = "nil"

\* the parsed go.mod files of the checkout
Files == Range(fs.files)

\* the module paths of the checkout
InternalNames == {f.Name : f \in Files}

HasCoreFile == \E f \in Files : f.LocalRepoPath = <<"go.mod">>

CoreOf == CHOOSE f \in Files : f.LocalRepoPath = <<"go.mod">>

SubFiles == {f \in Files : f.LocalRepoPath # <<"go.mod">>}

ErrorsOfKind(k) == {i \in DOMAIN validationErrors : validationErrors[i].kind = k}

TheChecks ==
    {"checkReplaces", "checkCoreModuleReplacements",
     "checkInternalModuleRequirements", "checkGoVersions"}

\* ------------------------------------------------------------------ claims

\* what each check returns when it is run on its own on the module list
AloneReplaces == checkReplaces(iml)
AloneCore ==
    IF checkCoreModuleReplacements(iml) = Nil THEN <<>>
    ELSE <<checkCoreModuleReplacements(iml)>>
AloneRequirements == checkInternalModuleRequirements(iml)
AloneGoVersions == checkGoVersions(iml)
AloneAll == AloneReplaces \o AloneCore \o AloneRequirements \o AloneGoVersions

\* C1: once the module list (with its core module) is built, all four checks
\* are called whatever the earlier ones returned, and validationErrors holds
\* each error exactly as often as the four checks return it on their own:
\* nothing dropped, nothing added, so N problems give N entries.
C1_AllChecksRunAndNothingLost ==
    Validated =>
        /\ TheChecks \subseteq Range(calls)
        /\ Len(validationErrors) = Len(AloneAll)
        /\ \A e \in Range(AloneAll) \cup Range(validationErrors) :
              Occ(validationErrors, e) = Occ(AloneAll, e)

\* one problem in each of the four checks: four entries
C1_Witness ==
    /\ Validated
    /\ Len(AloneReplaces) = 1 /\ Len(AloneCore) = 1
    /\ Len(AloneRequirements) = 1 /\ Len(AloneGoVersions) = 1
    /\ Len(validationErrors) = 4

\* C2: runValidateGoMod returns nil exactly when validationErrors is empty;
\* with any error collected it logs every one of them and returns
\* "validation failed".
C2_OkIffNoViolation ==
    Validated =>
        /\ (ret = "nil") <=> (validationErrors = <<>>)
        /\ (ret = "validation failed") <=> (validationErrors # <<>>)
        /\ validationErrors # <<>> => logged = validationErrors

C2_Witness ==
    /\ Validated /\ ret = "validation failed"
    /\ Len(validationErrors) = 1 /\ logged = validationErrors

MismatchError(m, r) ==
    [kind |-> "replaceMismatch", module |-> m.Name, path |-> r.Old.Path,
     got |-> r.New, want |-> iml.replaceMap[r.Old.Path]]

\* C3: for every module (core included) and every replace of it whose Old.Path
\* is a replaceMap key, checkReplaces reports a mismatch carrying the module,
\* the path, the replace's target and the expected target exactly when the
\* target's path or version differs from the entry (once per such replace),
\* and it reports no other mismatch.
C3_OverrideMatch ==
    Validated =>
        /\ \A m \in Files : \A j \in DOMAIN m.Replace :
              LET r == m.Replace[j]
                  same == {k \in DOMAIN m.Replace :
                              /\ m.Replace[k].Old.Path = r.Old.Path
                              /\ m.Replace[k].New = r.New}
              IN r.Old.Path \in DOMAIN iml.replaceMap =>
                    Occ(validationErrors, MismatchError(m, r)) =
                       IF r.New # iml.replaceMap[r.Old.Path]
                       THEN Cardinality(same) ELSE 0
        /\ \A i \in ErrorsOfKind("replaceMismatch") :
              \E m \in Files : \E j \in DOMAIN m.Replace :
                 /\ m.Replace[j].Old.Path \in DOMAIN iml.replaceMap
                 /\ m.Replace[j].New # iml.replaceMap[m.Replace[j].Old.Path]
                 /\ validationErrors[i] = MismatchError(m, m.Replace[j])

\* the core pins the dependency to v1.0.1, the submodule to v1.1.2: exactly
\* one mismatch, for the submodule, carrying both
C3_Witness ==
    /\ Validated
    /\ CoreOf.Replace = <<Rep(DepName, "", PinA)>>
    /\ \E m \in SubFiles :
          /\ m.Replace = <<Rep(DepName, "", PinB)>>
          /\ Cardinality(ErrorsOfKind("replaceMismatch")) = 1
          /\ \E i \in DOMAIN validationErrors :
                validationErrors[i] =
                   [kind |-> "replaceMismatch", module |-> m.Name, path |-> DepName,
                    got |-> PinB, want |-> PinA]

MissingError(m, p) ==
    [kind |-> "missingReplace", module |-> m.Name, path |-> p,
     want |-> iml.replaceMap[p]]

\* C4: for every module (core included) and every require of it on a
\* replaceMap key p, checkReplaces reports one missing replace (module, p,
\* expected target) per such require when the module has no replace of p at
\* all, and none when it has a replace of p, even a mismatching one.
C4_MissingOverride ==
    Validated =>
        /\ \A m \in Files : \A j \in DOMAIN m.Require :
              LET p == m.Require[j].Path
                  requires == {k \in DOMAIN m.Require : m.Require[k].Path = p}
                  replaced == \E k \in DOMAIN m.Replace : m.Replace[k].Old.Path = p
              IN p \in DOMAIN iml.replaceMap =>
                    /\ Occ(validationErrors, MissingError(m, p)) =
                          IF replaced THEN 0 ELSE Cardinality(requires)
                    /\ replaced =>
                          \A i \in ErrorsOfKind("missingReplace") :
                             ~ (/\ validationErrors[i].module = m.Name
                                /\ validationErrors[i].path = p)
        /\ \A i \in ErrorsOfKind("missingReplace") :
              \E m \in Files : \E j \in DOMAIN m.Require :
                 /\ m.Require[j].Path \in DOMAIN iml.replaceMap
                 /\ validationErrors[i] = MissingError(m, m.Require[j].Path)

\* a submodule requires the core without replacing it (one missing replace for
\* the core path) and requires another replaceMap key, which it replaces
\* wrongly (a mismatch, no missing replace)
C4_Witness ==
    /\ Validated
    /\ \E m \in SubFiles :
          /\ \E j \in DOMAIN m.Require : m.Require[j].Path = CoreName
          /\ \A k \in DOMAIN m.Replace : m.Replace[k].Old.Path # CoreName
          /\ Occ(validationErrors,
                 [kind |-> "missingReplace", module |-> m.Name, path |-> CoreName,
                  want |-> coreReplace]) = 1
          /\ \E j \in DOMAIN m.Require : \E k \in DOMAIN m.Replace :
                /\ m.Require[j].Path \in DOMAIN iml.replaceMap
                /\ m.Replace[k].Old.Path = m.Require[j].Path
                /\ m.Replace[k].New # iml.replaceMap[m.Require[j].Path]
                /\ Cardinality(ErrorsOfKind("missingReplace")) = 1

NonDummyError(m, p) ==
    [kind |-> "nonDummy", module |-> m.Name, path |-> p,
     want |-> "v0.0.0-00010101000000-000000000000"]

\* C5: for every module (core included) and every require of it,
\* checkInternalModuleRequirements reports the module and the required path
\* once per require whose path is a module of the checkout and whose version
\* is not the dummy version; a require of a path outside the checkout is
\* never reported, whatever its version.
C5_DummyVersion ==
    Validated =>
        /\ \A m \in Files : \A j \in DOMAIN m.Require :
              LET p == m.Require[j].Path
                  bad == {k \in DOMAIN m.Require :
                             /\ m.Require[k].Path = p
                             /\ m.Require[k].Version #
                                   "v0.0.0-00010101000000-000000000000"}
              IN Occ(validationErrors, NonDummyError(m, p)) =
                    IF p \in InternalNames THEN Cardinality(bad) ELSE 0
        /\ \A i \in ErrorsOfKind("nonDummy") :
              /\ validationErrors[i].path \in InternalNames
              /\ \E m \in Files : validationErrors[i] =
                                     NonDummyError(m, validationErrors[i].path)

\* a submodule requires another submodule at a real version (reported) and a
\* third-party dependency at a real version (not reported)
C5_Witness ==
    /\ Validated
    /\ \E m \in SubFiles :
          /\ \E j \in DOMAIN m.Require :
                /\ m.Require[j].Path \in InternalNames \ {CoreName}
                /\ m.Require[j].Version = "v1.11.0"
          /\ \E j \in DOMAIN m.Require :
                /\ m.Require[j].Path \notin InternalNames
                /\ m.Require[j].Version = "v1.11.0"
          /\ Cardinality(ErrorsOfKind("nonDummy")) = 1

GoVersionError(s) ==
    [kind |-> "goVersion", module |-> s.Name, got |-> s.Go, want |-> CoreOf.Go]

\* C6: checkGoVersions reports every submodule whose Go version differs from
\* the core's exactly once, with both versions, reports no submodule with the
\* core's version, and never reports the core module; so it reports nothing
\* exactly when every module declares the core's Go version.
C6_GoVersions ==
    Validated =>
        /\ \A s \in SubFiles :
              Occ(validationErrors, GoVersionError(s)) =
                 IF s.Go # CoreOf.Go THEN 1 ELSE 0
        /\ \A i \in ErrorsOfKind("goVersion") :
              /\ validationErrors[i].module # CoreOf.Name
              /\ \E s \in SubFiles : validationErrors[i] = GoVersionError(s)
        /\ Cardinality(ErrorsOfKind("goVersion")) =
              Cardinality({s \in SubFiles : s.Go # CoreOf.Go})
        /\ (ErrorsOfKind("goVersion") = {}) <=> (\A f \in Files : f.Go = CoreOf.Go)

\* two submodules declare another Go version than the core: two errors
C6_Witness ==
    /\ Validated
    /\ Cardinality({s \in SubFiles : s.Go # CoreOf.Go}) = 2
    /\ Cardinality(ErrorsOfKind("goVersion")) = 2

\* the Old.Path of the core's replaces without a target version, in order
CoreLocalPaths ==
    LET local == SelectSeq(CoreOf.Replace, LAMBDA r : r.New.Version = "")
    IN [i \in DOMAIN local |-> local[i].Old.Path]

\* C7: checkCoreModuleReplacements yields at most one error; it yields one
\* exactly when the core module has a replace without a target version, and
\* that error lists the Old.Path of exactly those replaces; the replaces of
\* submodules play no part.
C7_CorePurity ==
    Validated =>
        /\ Cardinality(ErrorsOfKind("coreLocalReplaces")) <= 1
        /\ (ErrorsOfKind("coreLocalReplaces") # {}) <=>
              (\E j \in DOMAIN CoreOf.Replace : CoreOf.Replace[j].New.Version = "")
        /\ \A i \in ErrorsOfKind("coreLocalReplaces") :
              validationErrors[i].paths = CoreLocalPaths

\* the core has two local replaces and a submodule has one too: one error,
\* naming the core's two
C7_Witness ==
    /\ Validated
    /\ Len(CoreLocalPaths) = 2
    /\ Cardinality(Range(CoreLocalPaths)) = 2
    /\ \E s \in SubFiles : \E j \in DOMAIN s.Replace : s.Replace[j].New.Version = ""
    /\ Cardinality(ErrorsOfKind("coreLocalReplaces")) = 1

\* C8: when the walk succeeds and finds no go.mod at the root,
\* findInternalModules fails: runValidateGoMod returns that error, no
\* replaceMap (no module list) is built, none of the four checks is called,
\* and no validation error is collected or logged.
C8_MissingCoreIsFatal ==
    (~ fs.walkErr /\ ~ HasCoreFile) =>
        /\ iml = Nil
        /\ validationErrors = <<>> /\ logged = <<>>
        /\ Range(calls) \cap TheChecks = {}
        /\ pc \in {"find", "done"}
        /\ pc = "done" => ret = "failed to find all submodules"

\* a checkout without core whose submodules would have been reported
C8_Witness ==
    /\ pc = "done" /\ ~ fs.walkErr /\ ~ HasCoreFile
    /\ \E s \in SubFiles : s.Go = "1.18" /\ Len(s.Require) = 1
    /\ ret = "failed to find all submodules"

\* C9: when runValidateGoMod returns nil, every require of every module on a
\* module of the checkout has the dummy version, the module has a replace of
\* that path, and every replace it has of that path has no target version.
C9_InternalResolvesLocally ==
    ReturnedOk =>
        \A m \in Files : \A j \in DOMAIN m.Require :
            m.Require[j].Path \in InternalNames =>
                /\ m.Require[j].Version = "v0.0.0-00010101000000-000000000000"
                /\ \E k \in DOMAIN m.Replace : m.Replace[k].Old.Path = m.Require[j].Path
                /\ \A k \in DOMAIN m.Replace :
                      m.Replace[k].Old.Path = m.Require[j].Path =>
                         m.Replace[k].New.Version = ""

\* a passing checkout whose submodule requires another submodule
C9_Witness ==
    /\ ReturnedOk
    /\ \E m \in SubFiles : \E j \in DOMAIN m.Require :
          m.Require[j].Path \in InternalNames \ {CoreName}

\* C10: when runValidateGoMod returns nil, for every submodule m and every
\* replace of the core for a path D outside the checkout, if m requires D then
\* m has a replace of D and every replace m has of D has the target path and
\* version of the core's replace.
C10_NoDrift ==
    ReturnedOk =>
        \A m \in SubFiles : \A c \in DOMAIN CoreOf.Replace :
            LET D == CoreOf.Replace[c].Old.Path
            IN (D \notin InternalNames
                /\ \E j \in DOMAIN m.Require : m.Require[j].Path = D) =>
                    /\ \E k \in DOMAIN m.Replace : m.Replace[k].Old.Path = D
                    /\ \A k \in DOMAIN m.Replace :
                          m.Replace[k].Old.Path = D =>
                             /\ m.Replace[k].New.Path = CoreOf.Replace[c].New.Path
                             /\ m.Replace[k].New.Version = CoreOf.Replace[c].New.Version

\* a passing checkout: the core pins the dependency, the submodule requires it
\* and pins it the same way
C10_Witness ==
    /\ ReturnedOk
    /\ \E m \in SubFiles : \E c \in DOMAIN CoreOf.Replace :
          /\ CoreOf.Replace[c].Old.Path = DepName
          /\ \E j \in DOMAIN m.Require : m.Require[j].Path = DepName
          /\ \E k \in DOMAIN m.Replace : m.Replace[k].Old.Path = DepName

\* ------------------------------------------------------------ the exemptions

\* the module's go.mod requires the path p
RequiresPath(m, p) == \E j \in DOMAIN m.Require : m.Require[j].Path = p

\* the module's go.mod replaces the path p
ReplacesPath(m, p) == \E k \in DOMAIN m.Replace : m.Replace[k].Old.Path = p

\* the missing-replace errors reported for the module and the path
MissingFor(m, p) ==
    {i \in ErrorsOfKind("missingReplace") :
        validationErrors[i].module = m.Name /\ validationErrors[i].path = p}

\* the dummy-version errors reported for the module
NonDummyFor(m) ==
    {i \in ErrorsOfKind("nonDummy") : validationErrors[i].module = m.Name}

\* C11: a module in directImportExemptions that requires the core module's
\* path and has no replace of it gets no missing-replace error for that path,
\* and it still gets one for every other replaceMap key it requires without
\* replacing it.
C11_DirectImportExemption ==
    Validated =>
        \A m \in Files :
           m.Name \in directImportExemptions =>
              /\ (RequiresPath(m, iml.coreModule.Name)
                  /\ ~ ReplacesPath(m, iml.coreModule.Name))
                    => MissingFor(m, iml.coreModule.Name) = {}
              /\ \A p \in DOMAIN iml.replaceMap \ {iml.coreModule.Name} :
                    (RequiresPath(m, p) /\ ~ ReplacesPath(m, p))
                       => MissingFor(m, p) # {}

\* C12: a module in noDummyExemptions gets no dummy-version error whatever
\* versions it requires internal modules at; a module not in it gets exactly
\* one per require of an internal module at a version other than the dummy.
C12_NoDummyExemption ==
    Validated =>
        \A m \in Files :
           IF m.Name \in noDummyExemptions
           THEN NonDummyFor(m) = {}
           ELSE Cardinality(NonDummyFor(m)) =
                   Cardinality({j \in DOMAIN m.Require :
                                   /\ m.Require[j].Path \in InternalNames
                                   /\ m.Require[j].Version # dummyCoreImportVersion})

Wording(e) ==
    IF e.kind = "replaceMismatch"
    THEN <<"module %q replaces %q with \"%s %s\", but the expected replacement was \"%s %s\"",
           "All replaces should match the core go.mod file",
           "and all internal modules should have local replacements">>
    ELSE IF e.kind = "missingReplace"
    THEN <<"module %q requires %q which is replaced by \"%s %s\" in the core module but is not replaced in this module",
           "Submodules should have the same replacements as the core module">>
    ELSE <<>>

\* the logged line of the error contains the clause
Says(e, clause) == clause \in Range(Wording(e))

\* C14: a mismatch on the core module's path is worded "Core module
\* replacements should point at the core module", a mismatch on a path
\* outside the checkout "All replaces should match the core go.mod file", and
\* a missing replace of the core path "The core module should have a
\* filesystem replacement" instead of the wording used for other paths.
C14_CoreWordingDistinguished ==
    Validated =>
        \A i \in DOMAIN validationErrors :
           LET e == validationErrors[i]
           IN /\ (e.kind = "replaceMismatch" /\ e.path = iml.coreModule.Name) =>
                    /\ Says(e, "Core module replacements should point at the core module")
                    /\ ~ Says(e, "All replaces should match the core go.mod file")
              /\ (e.kind = "replaceMismatch" /\ e.path \notin iml.internalModuleNames) =>
                    /\ Says(e, "All replaces should match the core go.mod file")
                    /\ ~ Says(e, "Core module replacements should point at the core module")
              /\ (e.kind = "missingReplace" /\ e.path = iml.coreModule.Name) =>
                    /\ Says(e, "The core module should have a filesystem replacement")
                    /\ ~ Says(e, "Submodules should have the same replacements as the core module")

\* ------------------------------------------------------------ a second run

\* a second run on the checkout has returned
RanTwice == pc = "done" /\ prev # NoRun

C17_MapAsSpecified ==
    (iml # Nil /\ Cardinality(InternalNames) = Cardinality(Files)) =>
        LET core == CoreOf
            thirdParty == {core.Replace[i].Old.Path : i \in DOMAIN core.Replace}
                             \ InternalNames
            pin(p) == LET of == {i \in DOMAIN core.Replace : core.Replace[i].Old.Path = p}
                      IN core.Replace[CHOOSE i \in of : \A j \in of : j <= i].New
            local(n) == IF n = core.Name THEN coreReplace
                        ELSE submoduleReplace(CHOOSE f \in SubFiles : f.Name = n)
        IN /\ DOMAIN iml.replaceMap = thirdParty \cup InternalNames
           /\ \A p \in thirdParty : iml.replaceMap[p] = pin(p)
           /\ \A n \in InternalNames :
                 /\ iml.replaceMap[n] = local(n)
                 /\ iml.replaceMap[n].Version = ""

\* the core go.mod pins cmd/ctl's module to a version and pins the third-party
\* dependency: the map holds the pin of the dependency and cmd/ctl's directory
C17_Witness ==
    /\ iml # Nil
    /\ CmctlName \in InternalNames
    /\ \E i, j \in DOMAIN CoreOf.Replace :
          /\ CoreOf.Replace[i] = Rep(CmctlName, "", PinA)
          /\ CoreOf.Replace[j].Old.Path = DepName
    /\ iml.replaceMap[CmctlName] = LocalCtl
    /\ iml.replaceMap[DepName].Version # ""

\* ------------------------------------------------- the targets of submodules

\* the directory of a module's go.mod
DirOf(f) == SubSeq(f.LocalRepoPath, 1, Len(f.LocalRepoPath) - 1)

\* filepath.Rel(from, to) + "/" for two directories of the checkout
RelTarget(from, to) ==
    LET n == IF Len(from) < Len(to) THEN Len(from) ELSE Len(to)
        k == CHOOSE k \in 0..n :
                /\ SubSeq(from, 1, k) = SubSeq(to, 1, k)
                /\ (k = n \/ from[k + 1] # to[k + 1])
    IN [i \in 1..(Len(from) - k) |-> ".."] \o SubSeq(to, k + 1, Len(to)) \o <<"">>

\* the errors checkReplaces reported to the module m about the path p
ReplaceErrorsFor(m, p) ==
    {i \in ErrorsOfKind("replaceMismatch") \cup ErrorsOfKind("missingReplace") :
        validationErrors[i].module = m.Name /\ validationErrors[i].path = p}

\* C18 as stated: the target a consuming module M is held to for a submodule
\* S is the relative path from M's directory to S's directory.
C18_TargetRelativeToConsumer ==
    Validated =>
        \A m \in Files : \A sub \in SubFiles :
           \A i \in ReplaceErrorsFor(m, sub.Name) :
              validationErrors[i].want.Path = RelTarget(DirOf(m), DirOf(sub))

\* C18, amended: the target a consuming module is held to for a submodule S
\* is the relative path to S's directory from a directory two levels below
\* the root, wherever the consuming module lies: two consumers at different
\* depths are held to the same target.
C18_TargetSameForEveryConsumer ==
    Validated =>
        \A m \in Files : \A sub \in SubFiles :
           \A i \in ReplaceErrorsFor(m, sub.Name) :
              /\ validationErrors[i].want.Path =
                    RelTarget(<<"any", "where">>, DirOf(sub))
              /\ \A m2 \in Files : \A j \in ReplaceErrorsFor(m2, sub.Name) :
                    validationErrors[j].want = validationErrors[i].want

\* the core module, at the root, and the e2e module, one level below it, both
\* require cmd/ctl's module without replacing it and are held to "../../cmd/ctl/"
C18_Witness ==
    /\ Validated
    /\ \E m \in SubFiles : \E sub \in SubFiles :
          /\ m.Name = E2EName
          /\ sub.Name = CmctlName
          /\ Len(DirOf(m)) = 1
          /\ \E i \in ReplaceErrorsFor(m, CmctlName), j \in ReplaceErrorsFor(CoreOf, CmctlName) :
                /\ validationErrors[i].want = LocalCtl
                /\ validationErrors[j].want = LocalCtl
                /\ RelTarget(DirOf(m), DirOf(sub)) # LocalCtl.Path

\* C19: the replaceMap entry of the core module's path is "../../" with an
\* empty version and the entry of a submodule whose go.mod lies in directory
\* P is "../../P/" with an empty version; every module, wherever it lies, is
\* held to these entries, and a module that replaces the core path with
\* another path is reported once per such replace with want "../../".
C19_CanonicalTargets ==
    /\ iml # Nil =>
          /\ iml.replaceMap[iml.coreModule.Name] =
                [Path |-> <<"..", "..", "">>, Version |-> ""]
          /\ \A sub \in SubFiles :
                iml.replaceMap[sub.Name] =
                   [Path |-> <<"..", "..">> \o DirOf(sub) \o <<"">>, Version |-> ""]
    /\ Validated =>
          \A m \in Files :
             /\ \A n \in InternalNames : \A i \in ReplaceErrorsFor(m, n) :
                   validationErrors[i].want = iml.replaceMap[n]
             /\ \A k \in DOMAIN m.Replace :
                   (/\ m.Replace[k].Old.Path = iml.coreModule.Name
                    /\ m.Replace[k].New.Path # <<"..", "..", "">>)
                      => \E i \in ReplaceErrorsFor(m, iml.coreModule.Name) :
                            /\ validationErrors[i].kind = "replaceMismatch"
                            /\ validationErrors[i].got = m.Replace[k].New
                            /\ validationErrors[i].want =
                                  [Path |-> <<"..", "..", "">>, Version |-> ""]

\* the e2e module lies in test/, one level below the root, so its entry is
\* "../../test/"; it replaces the core path with "../../cmd/ctl/" and is
\* reported with want "../../"
C19_Witness ==
    /\ Validated
    /\ \E m \in SubFiles :
          /\ m.Name = E2EName
          /\ DirOf(m) = <<"test">>
          /\ iml.replaceMap[E2EName].Path = <<"..", "..", "test", "">>
          /\ \E k \in DOMAIN m.Replace : m.Replace[k] = Rep(CoreName, "", LocalCtl)
          /\ \E i \in ReplaceErrorsFor(m, CoreName) :
                /\ validationErrors[i].got = LocalCtl
                /\ validationErrors[i].want = LocalRoot

\* ------------------------------------------------- the order of the errors

\* the check that reports an error of the given kind
CheckOf(e) ==
    IF e.kind \in {"replaceMismatch", "missingReplace"} THEN "checkReplaces"
    ELSE IF e.kind = "coreLocalReplaces" THEN "checkCoreModuleReplacements"
    ELSE IF e.kind = "nonDummy" THEN "checkInternalModuleRequirements"
    ELSE "checkGoVersions"

\* the errors of validationErrors come check by check, in the given order
InOrder(order) ==
    \A i, j \in DOMAIN validationErrors :
       i < j =>
          (CHOOSE a \in DOMAIN order : order[a] = CheckOf(validationErrors[i]))
             <= (CHOOSE b \in DOMAIN order : order[b] = CheckOf(validationErrors[j]))

\* C20 as stated: the errors are listed in the order purity,
\* override-consistency, dummy-version, toolchain, and a second run on the
\* same input lists them in the same order.
C20_OrderAsStated ==
    /\ Validated =>
          InOrder(<<"checkCoreModuleReplacements", "checkReplaces",
                    "checkInternalModuleRequirements", "checkGoVersions">>)
    /\ RanTwice => validationErrors = prev.validationErrors

\* C20, amended: the errors are listed in the order override-consistency,
\* purity, dummy-version, toolchain, the order in which runValidateGoMod
\* calls the checks, and a second run on the same input lists and logs them
\* in the same order.
C20_OrderOfCalls ==
    /\ Validated =>
          /\ InOrder(<<"checkReplaces", "checkCoreModuleReplacements",
                       "checkInternalModuleRequirements", "checkGoVersions">>)
          /\ calls = <<"findInternalModules", "checkReplaces",
                       "checkCoreModuleReplacements",
                       "checkInternalModuleRequirements", "checkGoVersions">>
    /\ RanTwice =>
          /\ validationErrors = prev.validationErrors
          /\ logged = prev.logged

\* a second run listed an error of each check: a missing replace, the core's
\* local replace, a real version of an internal module, a Go version
C20_Witness ==
    /\ RanTwice
    /\ \E i \in ErrorsOfKind("missingReplace"), j \in ErrorsOfKind("coreLocalReplaces"),
          k \in ErrorsOfKind("nonDummy"), l \in ErrorsOfKind("goVersion") :
             i < j /\ j < k /\ k < l

\* ------------------------------------------------------- checks side by side

\* the module list as findInternalModules built it from the checkout
Built == findInternalModules(fs).iml

\* C21: however the steps of the four checks are interleaved, a check whose
\* loop has run to its end returns the list it returns when called alone on
\* the module list, and the run ends with those four lists and the verdict
\* that goes with them.
C21_ChecksIndependent ==
    /\ (pc = "checkReplaces" /\ iml # Nil) =>
          /\ Finished("checkReplaces") =>
                Returned("checkReplaces") = checkReplaces(Built)
          /\ Finished("checkCoreModuleReplacements") =>
                Returned("checkCoreModuleReplacements") =
                   (IF checkCoreModuleReplacements(Built) = Nil THEN <<>>
                    ELSE <<checkCoreModuleReplacements(Built)>>)
          /\ Finished("checkInternalModuleRequirements") =>
                Returned("checkInternalModuleRequirements") =
                   checkInternalModuleRequirements(Built)
          /\ Finished("checkGoVersions") =>
                Returned("checkGoVersions") = checkGoVersions(Built)
    /\ Validated =>
          /\ Range(validationErrors) =
                Range(checkReplaces(Built)) \cup Range(checkInternalModuleRequirements(Built))
                \cup Range(checkGoVersions(Built))
                \cup (IF checkCoreModuleReplacements(Built) = Nil THEN {}
                      ELSE {checkCoreModuleReplacements(Built)})
          /\ (ret = "nil") = (validationErrors = <<>>)

\* checkGoVersions has finished with an error and checkCoreModuleReplacements
\* with a local replace while checkInternalModuleRequirements is in the
\* middle of its loop and checkReplaces has not begun
C21_Witness ==
    /\ pc = "checkReplaces"
    /\ iml # Nil
    /\ Finished("checkGoVersions")
    /\ running["checkGoVersions"].errs # <<>>
    /\ Finished("checkCoreModuleReplacements")
    /\ running["checkCoreModuleReplacements"].errs # <<>>
    /\ running["checkInternalModuleRequirements"].at = 2
    /\ ~ Finished("checkInternalModuleRequirements")
    /\ running["checkReplaces"].at = 1
    /\ checkReplaces(Built) # <<>>

\* C22: from its construction to the return of runValidateGoMod the module
\* list (modules, core module, submodules, internalModuleNames, every
\* module's requires, replaces and Go version) and the replaceMap are what
\* findInternalModules built from the checkout.
C22_BuiltOnceNeverWritten ==
    iml # Nil =>
        /\ iml.replaceMap = Built.replaceMap
        /\ iml.modules = Built.modules
        /\ iml.coreModule = Built.coreModule
        /\ iml.submodules = Built.submodules
        /\ iml.internalModuleNames = Built.internalModuleNames
        /\ iml.modules = fs.files

\* the run has returned after three of the checks reported, among them a Go
\* version, and the module list still holds the submodule's own Go version
C22_Witness ==
    /\ Validated
    /\ ErrorsOfKind("goVersion") # {}
    /\ ErrorsOfKind("missingReplace") # {}
    /\ ErrorsOfKind("nonDummy") # {}
    /\ \E i \in DOMAIN iml.submodules : iml.submodules[i].Go # iml.coreModule.Go
    /\ iml = Built

\* ------------------------------------------------ paths without an entry

\* C23: no error of the run is about a path that is not a key of the
\* replaceMap: a replace of such a path is never reported, whatever its
\* target, and a require of such a path is never reported as missing a
\* replace.
C23_UnknownPathsIgnored ==
    Validated =>
        /\ \A m \in Files : \A k \in DOMAIN m.Replace :
              m.Replace[k].Old.Path \notin DOMAIN iml.replaceMap =>
                 \A i \in DOMAIN validationErrors :
                    LET e == validationErrors[i]
                    IN IF e.kind = "coreLocalReplaces"
                       THEN m.Replace[k].Old.Path \notin Range(e.paths)
                       ELSE e.kind = "goVersion"
                            \/ ~ (e.module = m.Name /\ e.path = m.Replace[k].Old.Path)
        /\ \A m \in Files : \A j \in DOMAIN m.Require :
              m.Require[j].Path \notin DOMAIN iml.replaceMap =>
                 MissingFor(m, m.Require[j].Path) = {}
        /\ \A i \in ErrorsOfKind("replaceMismatch") \cup ErrorsOfKind("missingReplace") :
              validationErrors[i].path \in DOMAIN iml.replaceMap

\* the core does not replace the dependency; the submodule requires it and
\* replaces it with a pin of its own, and the run returns nil
C23_Witness ==
    /\ ReturnedOk
    /\ iml # Nil
    /\ DepName \notin DOMAIN iml.replaceMap
    /\ \E m \in SubFiles :
          /\ \E k \in DOMAIN m.Replace : m.Replace[k] = Rep(DepName, "", PinB)
          /\ RequiresPath(m, DepName)

\* ------------------------------------------------------ the core's own pins

\* no two of the replaces are of the same path at the same version
DistinctOld(replaces) ==
    \A i, j \in DOMAIN replaces : replaces[i].Old = replaces[j].Old => i = j

\* C24: every replace the core module declares for a path outside the
\* checkout equals the replaceMap entry of that path, also when the core
\* replaces one path more than once, so no mismatch is reported to the core
\* module for such a path.
C24_CorePinsNeverConflict ==
    (Validated /\ DistinctOld(iml.coreModule.Replace)) =>
        /\ \A k \in DOMAIN iml.coreModule.Replace :
              LET r == iml.coreModule.Replace[k]
              IN r.Old.Path \notin iml.internalModuleNames =>
                    r.New = iml.replaceMap[r.Old.Path]
        /\ \A i \in ErrorsOfKind("replaceMismatch") :
              validationErrors[i].module = iml.coreModule.Name =>
                 validationErrors[i].path \in iml.internalModuleNames

\* ------------------------------------------- the core requiring a submodule

\* C25: when the core module requires a submodule S the run never returns
\* nil: without a replace of S the core is reported for the missing replace,
\* for a replace of S by a version it is reported for the mismatch, and for
\* the replace of S by S's directory it is reported for the local replace.
C25_CoreRequiringSubmoduleFails ==
    Validated =>
        \A sub \in SubFiles :
           RequiresPath(iml.coreModule, sub.Name) =>
              /\ ret = "validation failed"
              /\ ~ ReplacesPath(iml.coreModule, sub.Name) =>
                    MissingFor(iml.coreModule, sub.Name) # {}
              /\ \A k \in DOMAIN iml.coreModule.Replace :
                    LET r == iml.coreModule.Replace[k]
                    IN r.Old.Path = sub.Name =>
                          /\ r.New.Version # "" =>
                                Occ(validationErrors, MismatchError(iml.coreModule, r)) >= 1
                          /\ r.New = iml.replaceMap[sub.Name] =>
                                \E i \in ErrorsOfKind("coreLocalReplaces") :
                                   sub.Name \in Range(validationErrors[i].paths)

\* the core requires cmd/ctl's module at the dummy version and replaces it
\* with "../../cmd/ctl/": the local replace is the only error of the run
C25_Witness ==
    /\ Validated
    /\ CmctlName \in InternalNames
    /\ CoreOf.Require = <<Req(CmctlName, dummyCoreImportVersion)>>
    /\ CoreOf.Replace = <<Rep(CmctlName, "", LocalCtl)>>
    /\ validationErrors = <<[kind |-> "coreLocalReplaces", paths |-> <<CmctlName>>]>>
    /\ ret = "validation failed"

\* ---------------------------------------------------- versions in checkReplaces

\* the module list with the Old.Version of every replace and the Version of
\* every require blanked
WithoutVersions(l) ==
    [l EXCEPT !.modules =
        [i \in DOMAIN l.modules |->
            LET m == l.modules[i]
            IN [m EXCEPT
                  !.Replace = [k \in DOMAIN m.Replace |->
                                  [m.Replace[k] EXCEPT !.Old.Version = ""]],
                  !.Require = [j \in DOMAIN m.Require |->
                                  [m.Require[j] EXCEPT !.Version = ""]]]]]

\* C26: checkReplaces looks at paths only: it reports what it reports with
\* every replace's original version and every require's version blanked; a
\* replace of a key p at an original version is held to the one entry of p,
\* and it keeps every require of p, at whatever version, from being reported.
C26_VersionsIgnored ==
    Validated =>
        /\ SelectSeq(validationErrors, LAMBDA e : CheckOf(e) = "checkReplaces")
              = checkReplaces(WithoutVersions(Built))
        /\ \A m \in Files : \A k \in DOMAIN m.Replace :
              LET r == m.Replace[k]
              IN (r.Old.Version # "" /\ r.Old.Path \in DOMAIN iml.replaceMap) =>
                    /\ (Occ(validationErrors, MismatchError(m, r)) >= 1)
                          = (r.New # iml.replaceMap[r.Old.Path])
                    /\ MissingFor(m, r.Old.Path) = {}

\* the core pins the dependency; the submodule requires it at v1.11.0 and
\* replaces only its v1.0.0, by the core's pin: nothing is reported
C26_Witness ==
    /\ ReturnedOk
    /\ iml # Nil
    /\ DepName \in DOMAIN iml.replaceMap
    /\ iml.replaceMap[DepName] = PinA
    /\ \E m \in SubFiles :
          /\ m.Require = <<Req(DepName, "v1.11.0")>>
          /\ m.Replace = <<Rep(DepName, "v1.0.0", PinA)>>

\* ------------------------------------------------------ the order of the input

\* the sequences with the elements of seq in another order
PermsOf(seq) ==
    {[i \in DOMAIN seq |-> seq[f[i]]] : f \in Permutations(DOMAIN seq)}

\* the checkout with its go.mod files found in another order and the
\* requires of each go.mod listed in another order
Shuffles(root) ==
    LET files == root.files
        requires == {rq \in [DOMAIN files ->
                                UNION {PermsOf(files[i].Require) : i \in DOMAIN files}] :
                        \A i \in DOMAIN files : rq[i] \in PermsOf(files[i].Require)}
    IN {[root EXCEPT !.files =
            [i \in DOMAIN files |-> [files[f[i]] EXCEPT !.Require = rq[f[i]]]]] :
          f \in Permutations(DOMAIN files), rq \in requires}

\* what the four checks report on a module list, in the order of the calls
AllErrors(l) ==
    checkReplaces(l)
    \o (IF checkCoreModuleReplacements(l) = Nil THEN <<>>
        ELSE <<checkCoreModuleReplacements(l)>>)
    \o checkInternalModuleRequirements(l)
    \o checkGoVersions(l)

\* C27: with the go.mod files found in any other order and each one's
\* requires listed in any other order, findInternalModules builds the same
\* replaceMap and the checks report the same errors, each as often, so the
\* verdict is the same.
C27_OrderOfInputIrrelevant ==
    (Validated /\ Cardinality(InternalNames) = Cardinality(Files)) =>
        \A other \in Shuffles(fs) :
           LET l == findInternalModules(other)
           IN /\ l.err = "nil"
              /\ l.iml.replaceMap = iml.replaceMap
              /\ \A e \in Range(AllErrors(l.iml)) \cup Range(validationErrors) :
                    Occ(AllErrors(l.iml), e) = Occ(validationErrors, e)
              /\ (AllErrors(l.iml) = <<>>) = (ret = "nil")

\* three go.mod files, the submodule requires two modules: in another order
\* of files and requires the same errors come in another order
C27_Witness ==
    /\ Validated
    /\ Len(fs.files) = 3
    /\ \E m \in SubFiles : \E j, k \in DOMAIN m.Require :
          m.Require[j].Path # m.Require[k].Path
    /\ Len(validationErrors) >= 3
    /\ \E other \in Shuffles(fs) :
          /\ other.files[1].LocalRepoPath = <<"go.mod">>
          /\ AllErrors(findInternalModules(other).iml) # validationErrors

\* ---------------------------------------------------------------- C28, C29

\* what the loop makes of an entry before it looks at it
Canon(rawAction) == ToLower(TrimSpace(rawAction))

\* the entry adds the action name: it is the name, or "*"
Inserts(rawAction, name) == Canon(rawAction) = name \/ Canon(rawAction) = <<"*">>

\* the entry removes the action name: it is "-" and the name
Removes(rawAction, name) == Canon(rawAction) = <<"-">> \o name

\* the entry is skipped, is "*", or names a known action to add or to remove
ValidEntry(rawAction) ==
    \/ Canon(rawAction) \in {<<>>, <<"*">>}
    \/ \E name \in publishActionMap : Canon(rawAction) \in {name, <<"-">> \o name}

\* alphabetical order of the action names
Alphabetical(a, b) ==
    \/ a = <<"githubrelease">> /\ b \in {<<"helmchartpr">>, <<"pushcontainerimages">>}
    \/ a = <<"helmchartpr">> /\ b = <<"pushcontainerimages">>

\* the call has returned a list and no error
PublishOk == publish # NoCall /\ publish.ret # Running /\ publish.ret.err = Nil

\* the call has returned an error
PublishErr == publish # NoCall /\ publish.ret # Running /\ publish.ret.err # Nil

C29_UnknownActionFails ==
    publish # NoCall /\ publish.ret # Running =>
        IF \E i \in DOMAIN publish.rawActions : ~ValidEntry(publish.rawActions[i])
        THEN publish.ret.err # Nil /\ publish.ret.list = Nil
        ELSE /\ publish.ret.err = Nil
             /\ publish.ret.list # Nil
             /\ Range(publish.ret.list.names) \subseteq publishActionMap

\* "-notanaction" between two valid entries
C29_Witness ==
    /\ PublishErr
    /\ Len(publish.rawActions) = 3
    /\ publish.rawActions[2] = <<"-", "notanaction">>
    /\ ValidEntry(publish.rawActions[1])
    /\ ValidEntry(publish.rawActions[3])
    /\ publish.ret.list = Nil

\* --------------------------------------------------------------------- C30

\* WaitForBuild has returned
WaitReturned == wait # NoCall /\ wait.ret # Running

\* C30: once the build has reached a completed status, WaitForBuild, polled
\* fairly, eventually returns: the build with that final status, or the error
\* of a poll without a build.
C30_WaitReturnsFinalBuild ==
    (wait # NoCall /\ wait.status \in Completed)
        ~> (/\ WaitReturned
            /\ \/ wait.ret.err # Nil /\ wait.ret.build = Nil
               \/ wait.ret.err = Nil /\ wait.ret.build = BuildCopy)

====
